---- MODULE Spec2Model ----
(***************************************************************************)
(* Multi-object vehicle tracker and heuristic accident-event fusion of     *)
(* services/ai-detection-service/main.py (Track, OptimizedVehicleTracker,  *)
(* detect_accident).                                                       *)
(*                                                                         *)
(* Number representation (the source computes in IEEE doubles):            *)
(*   coordinates, widths, heights    whole pixels                          *)
(*   distances, velocities           tenths of a pixel (dp)                *)
(*   confidences, IoU                1/10000 (bp): 10000 = 1.0             *)
(*   association cost                1/100000: 60000 = the 0.6 gate        *)
(*   angles                          whole degrees                         *)
(*   weighted confidences            1/1000000, fused confidence 1/10^7    *)
(***************************************************************************)
EXTENDS Integers, Sequences, FiniteSets, TLC

VARIABLES
    tracks,            \* self.tracks: sequence of Track records
    next_track_id,     \* self.next_track_id
    frame_detections,  \* self.frame_detections: frame index -> detection list
    frame_pos,         \* detect_accident: the caller's enumerate() index
    scene,             \* environment: raw boxes of the objects in front of the camera
    report,            \* value returned by the latest detect_accidents call
    calls,             \* history: number of process_frame calls made
    born,              \* history: track id -> value of calls when created
    last,              \* history: what the latest operation did
    other              \* the second tracker instance of the process, while the
                       \* variables above hold the one the running call is on

vars == <<tracks, next_track_id, frame_detections, frame_pos, scene, report,
          calls, born, last, other>>

-----------------------------------------------------------------------------
(* Bounds of the model                                                     *)

MaxFrames == 3
MaxDets == 2
MaxTrajCalls == 4
MaxLongCalls == 5
MaxCrossCalls == 3
MaxClusterCalls == 5
MaxTrackCalls == 31
MaxIrregular == 2
MaxIouUnits == 2
MaxApiCalls == 3
MaxMixCalls == 4
MaxTwoFrames == 2

(* Program constants                                                       *)

HistCap == 30
VelCap == 29
AccCap == 28
max_age == 3
min_hits == 2
confidence_threshold == 3500
max_tracking_distance == 100
collision_iou_threshold == 500
sudden_stop_threshold == -100
clustering_distance == 800
erratic_angle_threshold == 60

VEHICLE_CLASSES == {"car", "truck", "bus", "motorcycle", "bicycle"}

-----------------------------------------------------------------------------
(* Arithmetic helpers                                                      *)

Abs(n) == IF n < 0 THEN -n ELSE n
Min(a, b) == IF a <= b THEN a ELSE b
Max(a, b) == IF a >= b THEN a ELSE b

RECURSIVE ISqrtBS(_, _, _)
ISqrtBS(n, lo, hi) ==
    IF lo >= hi THEN lo
    ELSE LET mid == (lo + hi + 1) \div 2
         IN  IF mid * mid <= n THEN ISqrtBS(n, mid, hi)
             ELSE ISqrtBS(n, lo, mid - 1)

\* floor of the square root
ISqrt(n) == ISqrtBS(n, 0, 46340)

\* scipy euclidean(p, q), in tenths of a pixel
euclidean(p, q) ==
    ISqrt(100 * ((p[1] - q[1]) * (p[1] - q[1]) + (p[2] - q[2]) * (p[2] - q[2])))

RECURSIVE SeqSum(_)
SeqSum(s) == IF s = <<>> THEN 0 ELSE Head(s) + SeqSum(Tail(s))

RECURSIVE SeqMax(_)
SeqMax(s) == IF Len(s) = 1 THEN s[1] ELSE Max(Head(s), SeqMax(Tail(s)))

SeqLast(s) == s[Len(s)]

Push_Unbounded(s, x, cap) == Append(s, x)

\* deque(maxlen=cap).append(x): the oldest entry is evicted past capacity
Push(s, x, cap) == IF Len(s) >= cap THEN Append(Tail(s), x) ELSE Append(s, x)

\* list(s)[-k:]
LastK(s, k) == IF Len(s) <= k THEN s ELSE SubSeq(s, Len(s) - k + 1, Len(s))

-----------------------------------------------------------------------------
(* Track                                                                   *)

Track_init_ZeroHits(track_id, detection, frame_idx) ==
    [ track_id          |-> track_id,
      class_name        |-> detection.class,
      positions         |-> <<(<<detection.x, detection.y>>)>>,
      frames            |-> <<frame_idx>>,
      confidences       |-> <<detection.confidence>>,
      bboxes            |-> <<detection.bbox>>,
      velocities        |-> <<>>,
      accelerations     |-> <<>>,
      age               |-> 0,
      time_since_update |-> 0,
      hits              |-> 0,
      hit_streak        |-> 0 ]

Track_init_SeedVelocity(track_id, detection, frame_idx) ==
    [ track_id          |-> track_id,
      class_name        |-> detection.class,
      positions         |-> <<(<<detection.x, detection.y>>)>>,
      frames            |-> <<frame_idx>>,
      confidences       |-> <<detection.confidence>>,
      bboxes            |-> <<detection.bbox>>,
      velocities        |-> <<0>>,
      accelerations     |-> <<>>,
      age               |-> 0,
      time_since_update |-> 0,
      hits              |-> 1,
      hit_streak        |-> 1 ]

Track_init(track_id, detection, frame_idx) ==
    [ track_id          |-> track_id,
      class_name        |-> detection.class,
      positions         |-> <<(<<detection.x, detection.y>>)>>,
      frames            |-> <<frame_idx>>,
      confidences       |-> <<detection.confidence>>,
      bboxes            |-> <<detection.bbox>>,
      velocities        |-> <<>>,
      accelerations     |-> <<>>,
      age               |-> 0,
      time_since_update |-> 0,
      hits              |-> 1,
      hit_streak        |-> 1 ]

update(t, detection, frame_idx) ==
    LET positions   == Push(t.positions, <<detection.x, detection.y>>, HistCap)
        frames      == Push(t.frames, frame_idx, HistCap)
        confidences == Push(t.confidences, detection.confidence, HistCap)
        bboxes      == Push(t.bboxes, detection.bbox, HistCap)
        n           == Len(positions)
        frame_diff  == IF n >= 2 THEN frames[n] - frames[n - 1] ELSE 0
        hasVel      == n >= 2 /\ frame_diff > 0
        velocity    == IF hasVel
                       THEN euclidean(positions[n], positions[n - 1]) \div frame_diff
                       ELSE 0
        velocities  == IF hasVel THEN Push(t.velocities, velocity, VelCap)
                       ELSE t.velocities
        m           == Len(velocities)
        hasAcc      == hasVel /\ m >= 2
        dv          == IF hasAcc THEN velocities[m] - velocities[m - 1] ELSE 0
        \* dv / frame_diff, rounded toward zero
        acceleration == IF dv >= 0 THEN dv \div Max(frame_diff, 1)
                        ELSE -((-dv) \div Max(frame_diff, 1))
        accelerations == IF hasAcc THEN Push(t.accelerations, acceleration, AccCap)
                         ELSE t.accelerations
    IN  [ t EXCEPT !.positions = positions,
                   !.frames = frames,
                   !.confidences = confidences,
                   !.bboxes = bboxes,
                   !.velocities = velocities,
                   !.accelerations = accelerations,
                   !.hits = @ + 1,
                   !.hit_streak = @ + 1,
                   !.time_since_update = 0 ]

predict(t, frame_idx) ==
    LET n == Len(t.positions)
    IN  IF n < 2 THEN t.positions[n]
        ELSE LET dx == t.positions[n][1] - t.positions[n - 1][1]
                 dy == t.positions[n][2] - t.positions[n - 1][2]
                 frame_diff == frame_idx - t.frames[n]
             IN  <<t.positions[n][1] + dx * frame_diff,
                   t.positions[n][2] + dy * frame_diff>>

get_current_velocity(t) ==
    IF Len(t.velocities) = 0 THEN 0 ELSE SeqLast(t.velocities)

mark_missed_KeepsStreak(t) ==
    [ t EXCEPT !.time_since_update = @ + 1,
               !.age = @ + 1 ]

mark_missed_Coasting(t) ==
    [ t EXCEPT !.time_since_update = @ + 1,
               !.hit_streak = 0,
               !.age = @ + 1,
               !.positions = Push(@, SeqLast(@), HistCap) ]

mark_missed(t) ==
    [ t EXCEPT !.time_since_update = @ + 1,
               !.hit_streak = 0,
               !.age = @ + 1 ]

-----------------------------------------------------------------------------
(* OptimizedVehicleTracker: geometry and association                       *)

\* the intersection over the first box's area alone
calculate_iou_OverFirst(bbox1, bbox2) ==
    LET box1 == <<bbox1[1], bbox1[2], bbox1[1] + bbox1[3], bbox1[2] + bbox1[4]>>
        box2 == <<bbox2[1], bbox2[2], bbox2[1] + bbox2[3], bbox2[2] + bbox2[4]>>
        x_left   == Max(box1[1], box2[1])
        y_top    == Max(box1[2], box2[2])
        x_right  == Min(box1[3], box2[3])
        y_bottom == Min(box1[4], box2[4])
        intersection == (x_right - x_left) * (y_bottom - y_top)
        box1_area == (box1[3] - box1[1]) * (box1[4] - box1[2])
    IN  IF x_right < x_left \/ y_bottom < y_top THEN 0
        ELSE IF box1_area > 0 THEN (intersection * 10000) \div box1_area ELSE 0

\* IoU of two (x, y, w, h) boxes, in bp
calculate_iou(bbox1, bbox2) ==
    LET box1 == <<bbox1[1], bbox1[2], bbox1[1] + bbox1[3], bbox1[2] + bbox1[4]>>
        box2 == <<bbox2[1], bbox2[2], bbox2[1] + bbox2[3], bbox2[2] + bbox2[4]>>
        x_left   == Max(box1[1], box2[1])
        y_top    == Max(box1[2], box2[2])
        x_right  == Min(box1[3], box2[3])
        y_bottom == Min(box1[4], box2[4])
        intersection == (x_right - x_left) * (y_bottom - y_top)
        box1_area == (box1[3] - box1[1]) * (box1[4] - box1[2])
        box2_area == (box2[3] - box2[1]) * (box2[4] - box2[2])
        union == box1_area + box2_area - intersection
    IN  IF x_right < x_left \/ y_bottom < y_top THEN 0
        ELSE IF union > 0 THEN (intersection * 10000) \div union ELSE 0

\* cost of one track/detection pair, in 1/100000
PairCost(track, detection, frame_idx) ==
    LET predicted_pos == predict(track, frame_idx)
        position_dist == euclidean(predicted_pos, <<detection.x, detection.y>>)
        iou           == calculate_iou(SeqLast(track.bboxes), detection.bbox)
        iou_cost      == 10000 - iou
        class_match   == IF track.class_name = detection.class THEN 1 ELSE 2
    IN  (5000 * position_dist) \div max_tracking_distance
            + 3 * iou_cost
            + 20000 * class_match

calculate_cost_matrix(trks, detections, frame_idx) ==
    IF Len(trks) = 0 \/ Len(detections) = 0 THEN <<>>
    ELSE [i \in 1..Len(trks) |->
            [j \in 1..Len(detections) |-> PairCost(trks[i], detections[j], frame_idx)]]

Injections(k, l) ==
    {f \in [1..k -> 1..l] : \A a, b \in 1..k : a # b => f[a] # f[b]}

RECURSIVE PairsCost(_, _)
PairsCost(cost_matrix, pairs) ==
    IF pairs = {} THEN 0
    ELSE LET p == CHOOSE q \in pairs : TRUE
         IN  cost_matrix[p[1]][p[2]] + PairsCost(cost_matrix, pairs \ {p})

\* scipy linear_sum_assignment: the complete assignments (min(n, m) pairs, no
\* row and no column used twice) of minimal total cost.  Which of several
\* minimal assignments scipy returns is not fixed by its contract.
linear_sum_assignment(cost_matrix, n, m) ==
    LET all == IF n <= m
               THEN {{<<i, f[i]>> : i \in 1..n} : f \in Injections(n, m)}
               ELSE {{<<g[j], j>> : j \in 1..m} : g \in Injections(m, n)}
        totals == {PairsCost(cost_matrix, a) : a \in all}
        best == CHOOSE c \in totals : \A d \in totals : c <= d
    IN  {a \in all : PairsCost(cost_matrix, a) = best}

GateAccepts_Inclusive(c) == c <= 60000

\* line 246: the gate on a solver-assigned pair
GateAccepts(c) == c < 60000

UnmatchedDetections_All(m, matched_detections) == [j \in 1..m |-> j]

\* lines 255-256: the detections that spawn a track, in index order
UnmatchedDetections(m, matched_detections) ==
    SelectSeq([j \in 1..m |-> j], LAMBDA j : j \notin matched_detections)

KeepTrack_Both(t) == t.time_since_update < max_age /\ t.hits >= min_hits

KeepTrack_Fresh(t) == t.time_since_update < max_age

\* lines 267-270: the pruning filter
KeepTrack(t) == t.time_since_update < max_age \/ t.hits >= min_hits

Detection_CentreUpright(box, conf, class_name) ==
    [ x          |-> (box[1] + box[3]) \div 2,
      y          |-> (box[2] + box[4]) \div 2,
      width      |-> box[3] - box[1],
      height     |-> box[4] - box[2],
      bbox       |-> <<box[1], -box[4], box[3] - box[1], box[4] - box[2]>>,
      confidence |-> conf,
      class      |-> class_name ]

\* lines 213-231: one retained detection from a raw detector entry
Detection(box, conf, class_name) ==
    LET x  == box[1]
        y  == box[2]
        x2 == box[3]
        y2 == box[4]
        center_x == (x + x2) \div 2
        center_y == (y + y2) \div 2
    IN  [ x          |-> center_x,
          y          |-> -center_y,
          width      |-> x2 - x,
          height     |-> y2 - y,
          bbox       |-> <<x, -y2, x2 - x, y2 - y>>,
          confidence |-> conf,
          class      |-> class_name ]

Retained_AnyClass(conf, class_name) == ~(conf < confidence_threshold)

\* lines 214-217: the class and confidence filter
Retained(conf, class_name) ==
    class_name \in VEHICLE_CLASSES /\ ~(conf < confidence_threshold)

\* a frame with a malformed entry is refused as a whole
Normalize_AllOrNothing(boxes, confidences, class_names) ==
    IF /\ Len(boxes) = Len(confidences)
       /\ Len(boxes) = Len(class_names)
       /\ \A i \in 1..Len(boxes) : Retained(confidences[i], class_names[i])
    THEN [k \in 1..Len(boxes) |-> Detection(boxes[k], confidences[k], class_names[k])]
    ELSE <<>>

\* lines 212-231: zip() stops at the shortest of the three lists
Normalize(boxes, confidences, class_names) ==
    LET n    == Min(Len(boxes), Min(Len(confidences), Len(class_names)))
        kept == SelectSeq([i \in 1..n |-> i],
                          LAMBDA i : Retained(confidences[i], class_names[i]))
    IN  [k \in 1..Len(kept) |->
            Detection(boxes[kept[k]], confidences[kept[k]], class_names[kept[k]])]

-----------------------------------------------------------------------------
(* OptimizedVehicleTracker.process_frame                                   *)

NoReport ==
    [ called               |-> FALSE,
      has_accident         |-> FALSE,
      confidence           |-> 0,
      accident_frame_ratio |-> 0,
      suspicious_frames    |-> {},
      total_frames         |-> 0,
      accident_indicators  |-> <<>>,
      confirmed_tracks     |-> 0,
      total_detections     |-> 0 ]

NoCall ==
    [ op |-> "none", frame_idx |-> 0, prev |-> <<>>, detections |-> <<>>,
      cost_matrix |-> <<>>, assigned |-> {}, matched |-> {}, spawned |-> <<>>,
      first_id |-> 0, all |-> <<>>, result |-> <<>> ]

\* self.frame_detections[frame_idx] = detections
LogFrame(log, frame_idx, detections) ==
    [f \in DOMAIN log \cup {frame_idx} |->
        IF f = frame_idx THEN detections ELSE log[f]]

\* new ids taken from the number of live tracks
Associate_IdFromCount(aged, detections, frame_idx, matched, spawn, first_id) ==
    LET n == Len(aged)
        m == Len(detections)
        matched_tracks == {p[1] : p \in matched}
        DetFor(i) == CHOOSE j \in 1..m : <<i, j>> \in matched
        after == IF n > 0 /\ m > 0
                 THEN [i \in 1..n |->
                         IF i \in matched_tracks
                         THEN update(aged[i], detections[DetFor(i)], frame_idx)
                         ELSE mark_missed(aged[i])]
                 ELSE aged
        created == [k \in 1..Len(spawn) |->
                      Track_init(n + k - 1, detections[spawn[k]], frame_idx)]
    IN  after \o created

\* lines 238-265 for one solver result: the track list before pruning
Associate(aged, detections, frame_idx, matched, spawn, first_id) ==
    LET n == Len(aged)
        m == Len(detections)
        matched_tracks == {p[1] : p \in matched}
        DetFor(i) == CHOOSE j \in 1..m : <<i, j>> \in matched
        after == IF n > 0 /\ m > 0
                 THEN [i \in 1..n |->
                         IF i \in matched_tracks
                         THEN update(aged[i], detections[DetFor(i)], frame_idx)
                         ELSE mark_missed(aged[i])]
                 ELSE aged
        created == [k \in 1..Len(spawn) |->
                      Track_init(first_id + k - 1, detections[spawn[k]], frame_idx)]
    IN  after \o created

process_frame(boxes, confidences, class_names, frame_idx) ==
    LET detections == Normalize(boxes, confidences, class_names)
        aged == [i \in 1..Len(tracks) |-> [tracks[i] EXCEPT !.age = @ + 1]]
        n == Len(aged)
        m == Len(detections)
        cost_matrix == calculate_cost_matrix(aged, detections, frame_idx)
        solutions == IF n > 0 /\ m > 0
                     THEN linear_sum_assignment(cost_matrix, n, m)
                     ELSE {{}}
    IN  \E assigned \in solutions :
          LET matched == {p \in assigned : GateAccepts(cost_matrix[p[1]][p[2]])}
              spawn == IF m > 0
                       THEN UnmatchedDetections(m, {p[2] : p \in matched})
                       ELSE <<>>
              all == Associate(aged, detections, frame_idx, matched, spawn,
                               next_track_id)
          IN  /\ tracks' = SelectSeq(all, KeepTrack)
              /\ next_track_id' = next_track_id + Len(spawn)
              /\ frame_detections' = LogFrame(frame_detections, frame_idx, detections)
              /\ frame_pos' = frame_idx + 1
              /\ report' = NoReport
              /\ calls' = calls + 1
              /\ born' = [id \in DOMAIN born \cup
                                  (next_track_id .. next_track_id + Len(spawn) - 1) |->
                             IF id \in DOMAIN born THEN born[id] ELSE calls + 1]
              /\ last' = [ op |-> "process_frame", frame_idx |-> frame_idx,
                           prev |-> tracks, detections |-> detections,
                           cost_matrix |-> cost_matrix, assigned |-> assigned,
                           matched |-> matched, spawned |-> spawn,
                           first_id |-> next_track_id, all |-> all,
                           result |-> <<>> ]
              /\ UNCHANGED other

\* a defaultdict read by indexing gains an empty entry for a missing key
LookupLog_Index(log, frame_idx) ==
    [f \in DOMAIN log \cup {frame_idx} |-> IF f \in DOMAIN log THEN log[f] ELSE <<>>]

\* line 322: the frame log after self.frame_detections.get(frame_idx, [])
LookupLog(log, frame_idx) == log

-----------------------------------------------------------------------------
(* Event detectors                                                         *)

Indicator(type, frame, confidence, track_ids, detail) ==
    [ type |-> type, frame |-> frame, confidence |-> confidence,
      track_ids |-> track_ids, detail |-> detail ]

\* <<i, j>> with 1 <= i < j <= n, in the order of the nested loops
LoopPairs(n) ==
    SelectSeq([k \in 1..(n * n) |-> <<((k - 1) \div n) + 1, ((k - 1) % n) + 1>>],
              LAMBDA p : p[1] < p[2])

IsActive(t) == t.time_since_update = 0

detect_collisions(frame_idx) ==
    LET active_tracks == SelectSeq(tracks, IsActive)
        pairs == LoopPairs(Len(active_tracks))
        Iou(p) == calculate_iou(SeqLast(active_tracks[p[1]].bboxes),
                                SeqLast(active_tracks[p[2]].bboxes))
        hit == SelectSeq(pairs, LAMBDA p : Iou(p) > collision_iou_threshold)
    IN  [k \in 1..Len(hit) |->
            Indicator("collision", frame_idx,
                      Min(9500, 6000 + (7 * Iou(hit[k])) \div 10),
                      <<active_tracks[hit[k][1]].track_id,
                        active_tracks[hit[k][2]].track_id>>,
                      Iou(hit[k]))]

VelocityChange(t) ==
    LET recent_velocities == LastK(t.velocities, 3)
    IN  SeqLast(recent_velocities) - Head(recent_velocities)

IsSuddenStop(t) ==
    /\ Len(t.velocities) >= 2
    /\ VelocityChange(t) < sudden_stop_threshold
    /\ get_current_velocity(t) < 80

\* only the tracks whose last observation is of the frame asked for
detect_sudden_stops_AtLastFrame(frame_idx) ==
    LET stopped == SelectSeq(tracks, LAMBDA t : IsSuddenStop(t) /\ SeqLast(t.frames) = frame_idx)
    IN  [k \in 1..Len(stopped) |->
            Indicator("sudden_stop", frame_idx,
                      Min(9000, 6500 + 25 * Abs(VelocityChange(stopped[k]))),
                      <<stopped[k].track_id>>,
                      VelocityChange(stopped[k]))]

detect_sudden_stops(frame_idx) ==
    LET stopped == SelectSeq(tracks, IsSuddenStop)
    IN  [k \in 1..Len(stopped) |->
            Indicator("sudden_stop", frame_idx,
                      Min(9000, 6500 + 25 * Abs(VelocityChange(stopped[k]))),
                      <<stopped[k].track_id>>,
                      VelocityChange(stopped[k]))]

detect_vehicle_clustering(frame_idx) ==
    LET detections == IF frame_idx \in DOMAIN frame_detections
                      THEN frame_detections[frame_idx] ELSE <<>>
        n == Len(detections)
        Pos(i) == <<detections[i].x, detections[i].y>>
        close == {p \in {q \in (1..n) \X (1..n) : q[1] < q[2]} :
                     euclidean(Pos(p[1]), Pos(p[2])) < clustering_distance}
        close_pairs == Cardinality(close)
        involved_vehicles == {p[1] : p \in close} \cup {p[2] : p \in close}
    IN  IF n < 3 THEN <<>>
        ELSE IF close_pairs >= 2 /\ Cardinality(involved_vehicles) >= 3
        THEN << Indicator("vehicle_clustering", frame_idx,
                          Min(8000, 5500 + close_pairs * 1000),
                          <<>>, close_pairs) >>
        ELSE <<>>

\* 1000 * cos(k degrees), k = 0..90
CosTab ==
    << 1000, 1000, 999, 999, 998, 996, 995, 993, 990, 988, 985, 982, 978,
       974, 970, 966, 961, 956, 951, 946, 940, 934, 927, 921, 914, 906,
       899, 891, 883, 875, 866, 857, 848, 839, 829, 819, 809, 799, 788,
       777, 766, 755, 743, 731, 719, 707, 695, 682, 669, 656, 643, 629,
       616, 602, 588, 574, 559, 545, 530, 515, 500, 485, 469, 454, 438,
       423, 407, 391, 375, 358, 342, 326, 309, 292, 276, 259, 242, 225,
       208, 191, 174, 156, 139, 122, 105, 87, 70, 52, 35, 17, 0 >>

\* degrees(arccos(c / 1000)) to the nearest degree, for -1000 <= c <= 1000
RECURSIVE ArcCosDeg(_)
ArcCosDeg(c) ==
    IF c < 0 THEN 180 - ArcCosDeg(-c)
    ELSE LET above == Cardinality({k \in 1..91 : CosTab[k] > c})
         IN  IF above = 0 THEN 0
             ELSE IF above = 91 THEN 90
             ELSE IF CosTab[above] - c <= c - CosTab[above + 1]
                  THEN above - 1 ELSE above

\* lines 366-368: the angle between two motion vectors, in degrees
TurnAngle(v1, v2) ==
    LET dot  == v1[1] * v2[1] + v1[2] * v2[2]
        n1sq == v1[1] * v1[1] + v1[2] * v1[2]
        n2sq == v2[1] * v2[1] + v2[2] * v2[2]
        den  == ISqrt(100 * n1sq * n2sq)
        \* dot / (|v1| |v2| + 1e-6): a zero vector gives 0 / 1e-6 = 0
        cos_angle == IF den = 0 THEN 0
                     ELSE IF dot >= 0 THEN (dot * 10000) \div den
                     ELSE -(((-dot) * 10000) \div den)
        clipped == Max(-1000, Min(1000, cos_angle))
    IN  ArcCosDeg(clipped)

TrackAngles(t) ==
    LET recent_positions == LastK(t.positions, 4)
        vectors == [i \in 1..3 |->
                      << recent_positions[i + 1][1] - recent_positions[i][1],
                         recent_positions[i + 1][2] - recent_positions[i][2] >>]
    IN  [i \in 1..2 |-> TurnAngle(vectors[i], vectors[i + 1])]

IsErratic(t) ==
    /\ Len(t.positions) >= 4
    /\ LET angles == TrackAngles(t)
       IN  \/ SeqMax(angles) > erratic_angle_threshold
           \/ SeqSum(angles) > 35 * Len(angles)

detect_erratic_trajectories(frame_idx) ==
    LET erratic == SelectSeq(tracks, IsErratic)
    IN  [k \in 1..Len(erratic) |->
            Indicator("erratic_trajectory", frame_idx,
                      Min(8500, 5000 + (SeqMax(TrackAngles(erratic[k])) * 10000) \div 150),
                      <<erratic[k].track_id>>,
                      SeqMax(TrackAngles(erratic[k])))]

-----------------------------------------------------------------------------
(* Decision fusion: OptimizedVehicleTracker.detect_accidents               *)

\* lines 391-410 for one logged frame
FrameIndicators(frame_idx) ==
    detect_collisions(frame_idx) \o detect_sudden_stops(frame_idx)
        \o detect_vehicle_clustering(frame_idx)
        \o detect_erratic_trajectories(frame_idx)

RECURSIVE AllIndicators(_)
AllIndicators(frames) ==
    IF frames = {} THEN <<>>
    ELSE LET f == CHOOSE g \in frames : \A h \in frames : g <= h
         IN  FrameIndicators(f) \o AllIndicators(frames \ {f})

indicator_weights_LowCluster(type) ==
    CASE type = "collision"          -> 100
      [] type = "sudden_stop"        -> 80
      [] type = "erratic_trajectory" -> 75
      [] type = "vehicle_clustering" -> 50
      [] OTHER                       -> 50

indicator_weights_Swapped(type) ==
    CASE type = "collision"          -> 100
      [] type = "sudden_stop"        -> 60
      [] type = "erratic_trajectory" -> 75
      [] type = "vehicle_clustering" -> 80
      [] OTHER                       -> 50

\* lines 415-420 and 424: the weight of an indicator type, in percent
indicator_weights(type) ==
    CASE type = "collision"          -> 100
      [] type = "sudden_stop"        -> 80
      [] type = "erratic_trajectory" -> 75
      [] type = "vehicle_clustering" -> 60
      [] OTHER                       -> 50

\* lines 422-431, in 1/10^7
FinalConfidence(all_indicators) ==
    IF all_indicators = <<>> THEN 0
    ELSE LET weighted_confidences ==
                 [k \in 1..Len(all_indicators) |->
                     all_indicators[k].confidence
                         * indicator_weights(all_indicators[k].type)]
             max_confidence == SeqMax(weighted_confidences)
         IN  6 * max_confidence
                 + (4 * SeqSum(weighted_confidences)) \div Len(weighted_confidences)

\* line 424 in double precision: confidence * weight falls below its decimal
\* value where that value is a threshold of the report; 0.75 * 0.6 rounds to
\* 0.44999999999999996 (3 * 5404319552844595 / 2^55 is a tie, rounded to even)
WeightedBelowDecimal(ind) ==
    ind.type = "vehicle_clustering" /\ ind.confidence = 7500

CountType(all_indicators, type) ==
    Cardinality({k \in 1..Len(all_indicators) : all_indicators[k].type = type})

Verdict_RatioInclusive(final_confidence, suspicious, total_frames, collisions, erratics) ==
    \/ final_confidence > 5000000
    \/ (total_frames > 0 /\ 5 * suspicious >= total_frames
            /\ final_confidence > 4000000)
    \/ collisions > 0
    \/ (erratics > 10 /\ final_confidence > 3500000)
    \/ (total_frames > 0 /\ 10 * suspicious > 7 * total_frames
            /\ final_confidence > 3000000)

\* lines 437-443; the ratio suspicious / total is compared by cross-multiplying
Verdict(final_confidence, suspicious, total_frames, collisions, erratics) ==
    \/ final_confidence > 5000000
    \/ (total_frames > 0 /\ 5 * suspicious > total_frames
            /\ final_confidence > 4000000)
    \/ collisions > 0
    \/ (erratics > 10 /\ final_confidence > 3500000)
    \/ (total_frames > 0 /\ 10 * suspicious > 7 * total_frames
            /\ final_confidence > 3000000)

FrameRatio_EmptyIsOne(suspicious, total_frames) ==
    IF total_frames > 0 THEN (10000 * suspicious) \div total_frames ELSE 10000

\* line 413: accident_frame_ratio, in 1/10000
FrameRatio(suspicious, total_frames) ==
    IF total_frames > 0 THEN (10000 * suspicious) \div total_frames ELSE 0

IsConfirmed(t) == t.hits >= min_hits

RECURSIVE SumLens(_, _)
SumLens(log, frames) ==
    IF frames = {} THEN 0
    ELSE LET f == CHOOSE g \in frames : TRUE
         IN  Len(log[f]) + SumLens(log, frames \ {f})

detect_accidents_result ==
    LET all_indicators == AllIndicators(DOMAIN frame_detections)
        suspicious_frames ==
            {all_indicators[k].frame : k \in 1..Len(all_indicators)}
        total_frames == Cardinality(DOMAIN frame_detections)
        final_confidence == FinalConfidence(all_indicators)
    IN  [ called               |-> TRUE,
          has_accident         |->
              Verdict(final_confidence, Cardinality(suspicious_frames),
                      total_frames,
                      CountType(all_indicators, "collision"),
                      CountType(all_indicators, "erratic_trajectory")),
          confidence           |-> final_confidence,
          accident_frame_ratio |->
              FrameRatio(Cardinality(suspicious_frames), total_frames),
          suspicious_frames    |-> suspicious_frames,
          total_frames         |-> total_frames,
          accident_indicators  |-> all_indicators,
          confirmed_tracks     |-> Len(SelectSeq(tracks, IsConfirmed)),
          total_detections     |->
              SumLens(frame_detections, DOMAIN frame_detections) ]

detect_accidents ==
    /\ report' = detect_accidents_result
    /\ last' = [NoCall EXCEPT !.op = "detect_accidents"]
    /\ UNCHANGED <<tracks, next_track_id, frame_detections, frame_pos, scene,
                   calls, born, other>>

-----------------------------------------------------------------------------
(* The detector's output per frame (the excluded collaborator)             *)

Raw(x, y, x2, y2, conf, class_name) ==
    [box |-> <<x, y, x2, y2>>, conf |-> conf, class |-> class_name]

\* what the detector can report in one frame of the multi-object scene
RawList ==
    << Raw(0, 0, 20, 20, 9000, "car"),
       Raw(10, 0, 30, 20, 8000, "truck"),
       Raw(20, 0, 40, 20, 7000, "car"),
       Raw(0, 40, 20, 60, 9000, "person"),
       Raw(0, 40, 20, 60, 2000, "car") >>

RECURSIVE Pick(_, _)
Pick(list, S) ==
    IF list = <<>> THEN <<>>
    ELSE LET rest == Pick(Tail(list), {i - 1 : i \in S \ {1}})
         IN  IF 1 \in S THEN <<Head(list)>> \o rest ELSE rest

\* frames of at most MaxDets entries, in detector order
FrameInputs ==
    {Pick(RawList, S) : S \in {T \in SUBSET (1..Len(RawList)) : Cardinality(T) <= MaxDets}}

Boxes(frame) == [i \in 1..Len(frame) |-> frame[i].box]
Confs(frame) == [i \in 1..Len(frame) |-> frame[i].conf]
Names(frame) == [i \in 1..Len(frame) |-> frame[i].class]

\* OptimizedVehicleTracker(), lines 147-149, and its job's frame counter
NewInstance(id) ==
    [ id               |-> id,
      tracks           |-> <<>>,
      next_track_id    |-> 0,
      frame_detections |-> [f \in {} |-> <<>>],
      frame_pos        |-> 0,
      report           |-> NoReport,
      calls            |-> 0,
      born             |-> [t \in {} |-> 0] ]

\* a new tracker, before the first frame
NewTracker ==
    /\ other = NewInstance(2)
    /\ tracks = <<>>
    /\ next_track_id = 0
    /\ frame_detections = [f \in {} |-> <<>>]
    /\ frame_pos = 0
    /\ report = NoReport
    /\ calls = 0
    /\ born = [id \in {} |-> 0]
    /\ last = NoCall

Init ==
    /\ NewTracker
    /\ scene = << <<0, 0, 40, 40>> >>

\* detect_accident, lines 563-582: one frame with boxes is handed to the tracker
ProcessFrame ==
    /\ frame_pos < MaxFrames
    /\ \E frame \in FrameInputs :
          process_frame(Boxes(frame), Confs(frame), Names(frame), frame_pos)
    /\ UNCHANGED scene

\* detect_accident, lines 568-569: a frame without boxes is not processed
SkipFrame ==
    /\ frame_pos < MaxFrames
    /\ frame_pos' = frame_pos + 1
    /\ last' = [NoCall EXCEPT !.op = "skip_frame", !.frame_idx = frame_pos]
    /\ report' = NoReport
    /\ UNCHANGED <<tracks, next_track_id, frame_detections, scene, calls, born, other>>

\* detect_accident, line 584
DetectAccidents ==
    /\ ~report.called
    /\ detect_accidents

Next == ProcessFrame \/ SkipFrame \/ DetectAccidents

Spec == Init /\ [][Next]_vars

-----------------------------------------------------------------------------
(* A single object crossing the scene                                      *)

\* how far the object moves between two frames, in raw detector coordinates
Displacements ==
    {<<0, 0>>, <<4, 0>>, <<18, 0>>, <<20, 0>>, <<0, 20>>, <<60, 0>>}

Shift(box, d) == <<box[1] + d[1], box[2] + d[2], box[3] + d[1], box[4] + d[2]>>

\* the object moves and the detector reports it as a car
TrajFrame ==
    /\ calls < MaxTrajCalls
    /\ \E d \in Displacements :
          /\ scene' = <<Shift(scene[1], d)>>
          /\ process_frame(<<Shift(scene[1], d)>>, <<9000>>, <<"car">>, frame_pos)

\* the detector reports only a non-vehicle in this frame
TrajOccluded ==
    /\ calls < MaxTrajCalls
    /\ process_frame(scene, <<9000>>, <<"person">>, frame_pos)
    /\ UNCHANGED scene

NextTraj == TrajFrame \/ TrajOccluded \/ DetectAccidents

SpecTraj == Init /\ [][NextTraj]_vars

-----------------------------------------------------------------------------
(* A single object that stands, advances or jumps, over a longer run       *)

LongDisplacements == {<<0, 0>>, <<20, 0>>, <<40, 0>>}

LongFrame ==
    /\ calls < MaxLongCalls
    /\ \E d \in LongDisplacements :
          /\ scene' = <<Shift(scene[1], d)>>
          /\ process_frame(<<Shift(scene[1], d)>>, <<9000>>, <<"car">>, frame_pos)

LongOccluded ==
    /\ calls < MaxLongCalls
    /\ process_frame(scene, <<9000>>, <<"person">>, frame_pos)
    /\ UNCHANGED scene

NextLong == LongFrame \/ LongOccluded \/ DetectAccidents

SpecLong == Init /\ [][NextLong]_vars

-----------------------------------------------------------------------------
(* Two cars that approach, touch, overlap and part                         *)

CrossDisplacements == {<<-20, 0>>, <<0, 0>>, <<20, 0>>}

InitCross ==
    /\ NewTracker
    /\ scene = << <<0, 0, 40, 40>>, <<80, 0, 120, 40>> >>

CrossFrame ==
    /\ calls < MaxCrossCalls
    /\ \E d1, d2 \in CrossDisplacements :
          LET moved == <<Shift(scene[1], d1), Shift(scene[2], d2)>>
          IN  /\ scene' = moved
              /\ process_frame(moved, <<9000, 8000>>, <<"car", "car">>, frame_pos)

NextCross == CrossFrame \/ DetectAccidents

SpecCross == InitCross /\ [][NextCross]_vars

-----------------------------------------------------------------------------
(* Four cars driving close together                                        *)

ClusterDisplacements == {<<0, 0>>, <<10, 0>>}

\* how many of the four cars the detector reports in a frame
ClusterCounts == {2, 4}

InitCluster ==
    /\ NewTracker
    /\ scene = << <<0, 0, 20, 20>>, <<30, 0, 50, 20>>,
                  <<0, 30, 20, 50>>, <<30, 30, 50, 50>> >>

ClusterFrame ==
    /\ calls < MaxClusterCalls
    /\ \E d \in ClusterDisplacements, n \in ClusterCounts :
          LET moved == [i \in 1..Len(scene) |-> Shift(scene[i], d)]
          IN  /\ scene' = moved
              /\ process_frame(SubSeq(moved, 1, n), [i \in 1..n |-> 9000],
                               [i \in 1..n |-> "car"], frame_pos)

NextCluster == ClusterFrame \/ DetectAccidents

SpecCluster == InitCluster /\ [][NextCluster]_vars

-----------------------------------------------------------------------------
(* One Track object driven through its own operations                      *)

\* the detection of an object that advances 2 px per frame
TrackDetection(frame_idx) ==
    Detection(<<2 * frame_idx, 0, 2 * frame_idx + 20, 20>>, 9000, "car")

\* calls that did not append a fresh frame: misses and repeated frame indices
Irregular == tracks[1].age + (calls - (frame_pos - 1))

InitTrack ==
    /\ tracks = <<Track_init(0, TrackDetection(0), 0)>>
    /\ next_track_id = 1
    /\ frame_detections = [f \in {} |-> <<>>]
    /\ frame_pos = 1
    /\ scene = <<>>
    /\ report = NoReport
    /\ calls = 0
    /\ born = [id \in {0} |-> 0]
    /\ last = NoCall
    /\ other = NewInstance(2)

\* Track.update with the next frame index, or with the last one again
TrackUpdate ==
    /\ calls < MaxTrackCalls
    /\ \E step \in {0, 1} :
          LET frame_idx == frame_pos - 1 + step
          IN  /\ step = 0 => Irregular < MaxIrregular
              /\ tracks' = <<update(tracks[1], TrackDetection(frame_idx), frame_idx)>>
              /\ frame_pos' = frame_idx + 1
              /\ last' = [NoCall EXCEPT !.op = "update", !.frame_idx = frame_idx,
                                        !.prev = tracks]
    /\ calls' = calls + 1
    /\ UNCHANGED <<next_track_id, frame_detections, scene, report, born, other>>

\* Track.mark_missed in a frame that brought the track no detection
TrackMarkMissed ==
    /\ calls < MaxTrackCalls
    /\ Irregular < MaxIrregular
    /\ tracks' = <<mark_missed(tracks[1])>>
    /\ frame_pos' = frame_pos + 1
    /\ last' = [NoCall EXCEPT !.op = "mark_missed", !.frame_idx = frame_pos,
                              !.prev = tracks]
    /\ calls' = calls + 1
    /\ UNCHANGED <<next_track_id, frame_detections, scene, report, born, other>>

NextTrack == TrackUpdate \/ TrackMarkMissed

SpecTrack == InitTrack /\ [][NextTrack]_vars

-----------------------------------------------------------------------------
(* calculate_iou called on pairs of boxes                                  *)

\* (x, y, w, h) boxes on a 10 px grid, zero width and zero height included
IouBoxes ==
    {<<10 * x, 10 * y, 10 * w, 10 * h>> :
        x \in 0..MaxIouUnits, y \in 0..1, w \in 0..MaxIouUnits, h \in 0..1}

\* the two boxes of the call
InitIou ==
    /\ NewTracker
    /\ scene \in IouBoxes \X IouBoxes

\* calculate_iou on the two boxes, in both orders
IouCall ==
    /\ last.op = "none"
    /\ last' = [NoCall EXCEPT !.op = "calculate_iou",
                              !.result = <<calculate_iou(scene[1], scene[2]),
                                           calculate_iou(scene[2], scene[1])>>]
    /\ UNCHANGED <<tracks, next_track_id, frame_detections, frame_pos, scene,
                   report, calls, born, other>>

NextIou == IouCall

SpecIou == InitIou /\ [][NextIou]_vars

-----------------------------------------------------------------------------
(* The tracker called directly, with the caller's lists and frame indices  *)

ApiCall(boxes, confidences, class_names) ==
    [boxes |-> boxes, confidences |-> confidences, class_names |-> class_names]

\* well-formed calls, calls whose lists differ in length, a non-vehicle entry
ApiCalls ==
    { ApiCall(<< <<0, 0, 20, 20>> >>, <<9000>>, <<"car">>),
      ApiCall(<< <<0, 0, 20, 20>>, <<10, 0, 30, 20>> >>, <<9000, 7000>>, <<"car", "car">>),
      ApiCall(<< <<0, 0, 20, 20>>, <<10, 0, 30, 20>> >>, <<9000>>, <<"car", "car">>),
      ApiCall(<< <<0, 0, 20, 20>>, <<10, 0, 30, 20>> >>, <<9000, 7000>>, <<"car">>),
      ApiCall(<< <<0, 0, 20, 20>> >>, <<9000, 7000>>, <<"car", "car">>),
      ApiCall(<< <<0, 40, 20, 60>>, <<0, 0, 20, 20>> >>, <<9000, 9000>>, <<"person", "car">>) }

DetectorNames ==
    {"detect_collisions", "detect_sudden_stops", "detect_vehicle_clustering",
     "detect_erratic_trajectories"}

\* process_frame with the last frame index again or with the next one;
\* scene holds the three lists of the call
ApiFrame ==
    /\ calls < MaxApiCalls
    /\ \E call \in ApiCalls, frame_idx \in {frame_pos - 1, frame_pos} :
          /\ frame_idx >= 0
          /\ scene' = <<call.boxes, call.confidences, call.class_names>>
          /\ process_frame(call.boxes, call.confidences, call.class_names, frame_idx)

\* one detector called on its own, for a logged frame or for the next one
ApiDetector ==
    \E name \in DetectorNames, frame_idx \in 0..frame_pos :
        /\ frame_detections' =
              IF name = "detect_vehicle_clustering"
              THEN LookupLog(frame_detections, frame_idx)
              ELSE frame_detections
        /\ last' = [NoCall EXCEPT
                      !.op = name,
                      !.frame_idx = frame_idx,
                      !.result =
                          CASE name = "detect_collisions" -> detect_collisions(frame_idx)
                            [] name = "detect_sudden_stops" -> detect_sudden_stops(frame_idx)
                            [] name = "detect_vehicle_clustering" ->
                                   detect_vehicle_clustering(frame_idx)
                            [] name = "detect_erratic_trajectories" ->
                                   detect_erratic_trajectories(frame_idx)]
        /\ UNCHANGED <<tracks, next_track_id, frame_pos, scene, report, calls, born, other>>

\* detect_accidents called again; result holds the report of the call before
ApiDetectAgain ==
    /\ report.called
    /\ report' = detect_accidents_result
    /\ last' = [NoCall EXCEPT !.op = "detect_accidents", !.result = <<report>>]
    /\ UNCHANGED <<tracks, next_track_id, frame_detections, frame_pos, scene,
                   calls, born, other>>

NextApi == ApiFrame \/ ApiDetector \/ DetectAccidents \/ ApiDetectAgain

SpecApi == Init /\ [][NextApi]_vars

-----------------------------------------------------------------------------
(* A car driving past two parked cars                                      *)

MixDisplacements == {<<0, 0>>, <<4, 0>>, <<20, 0>>}

\* the two parked cars, 50 px apart; the second is 100 px from the start of
\* the moving car
Parked == << <<60, 10, 80, 30>>, <<110, 10, 130, 30>> >>

InitMix ==
    /\ NewTracker
    /\ scene = << <<0, 0, 40, 40>> >>

\* the car moves; the detector reports it, with or without the parked cars
MixFrame ==
    /\ calls < MaxMixCalls
    /\ \E d \in MixDisplacements, parked \in BOOLEAN :
          LET boxes == <<Shift(scene[1], d)>> \o (IF parked THEN Parked ELSE <<>>)
          IN  /\ scene' = <<Shift(scene[1], d)>>
              /\ process_frame(boxes, [i \in 1..Len(boxes) |-> 9000],
                               [i \in 1..Len(boxes) |-> "car"], frame_pos)

NextMix == MixFrame \/ DetectAccidents

SpecMix == InitMix /\ [][NextMix]_vars

-----------------------------------------------------------------------------
(* Two tracker instances of one process, their calls interleaved           *)

\* attributes bound to the instance by __init__ (self.x = ...), lines 147-149;
\* an attribute that is not listed would be one object shared by all instances
InstanceAttributes_ClassLog == {"tracks", "next_track_id"}

InstanceAttributes == {"tracks", "next_track_id", "frame_detections"}

\* the object an attribute of the waiting instance refers to
Attribute(name, own, running) ==
    IF name \in InstanceAttributes THEN own ELSE running

\* frames a job can read from its video
TwoFrames ==
    { Pick(RawList, {1, 2}), Pick(RawList, {3}) }

\* videos of MaxTwoFrames frames
TwoVideos == [1..MaxTwoFrames -> TwoFrames]

\* the instance the running call is on
running == 3 - other.id

\* two jobs, each with its own tracker and its own video
InitTwo ==
    /\ NewTracker
    /\ scene \in {pair \in TwoVideos \X TwoVideos : pair[1] # pair[2]}

\* detect_accident, lines 563-582, of the running job
TwoFrame ==
    /\ frame_pos < MaxTwoFrames
    /\ LET frame == scene[running][frame_pos + 1]
       IN  process_frame(Boxes(frame), Confs(frame), Names(frame), frame_pos)
    /\ UNCHANGED scene

\* the next call is made by the other job
SwitchInstance ==
    /\ tracks' = Attribute("tracks", other.tracks, tracks)
    /\ next_track_id' =
           Attribute("next_track_id", other.next_track_id, next_track_id)
    /\ frame_detections' =
           Attribute("frame_detections", other.frame_detections, frame_detections)
    /\ frame_pos' = other.frame_pos
    /\ report' = other.report
    /\ calls' = other.calls
    /\ born' = other.born
    /\ other' = [ id               |-> running,
                  tracks           |-> tracks,
                  next_track_id    |-> next_track_id,
                  frame_detections |-> frame_detections,
                  frame_pos        |-> frame_pos,
                  report           |-> report,
                  calls            |-> calls,
                  born             |-> born ]
    /\ last' = [NoCall EXCEPT !.op = "switch"]
    /\ UNCHANGED scene

NextTwo == TwoFrame \/ DetectAccidents \/ SwitchInstance

SpecTwo == InitTwo /\ [][NextTwo]_vars

-----------------------------------------------------------------------------
(* Properties                                                              *)

IsFrameCall == last.op = "process_frame"

LiveIds == {tracks[k].track_id : k \in 1..Len(tracks)}

\* the live track with a given id
TrackOf(id) == tracks[CHOOSE k \in 1..Len(tracks) : tracks[k].track_id = id]

Center(detection) == <<detection.x, detection.y>>

\* C1: a process_frame call on a non-empty live set with no retained
\* detection marks every live track missed: time_since_update + 1 and
\* hit_streak 0.
C1_EmptyFrameMarksMissed ==
    (IsFrameCall /\ Len(last.prev) > 0 /\ Len(last.detections) = 0) =>
        \A i \in 1..Len(last.prev) :
            last.prev[i].track_id \in LiveIds =>
                /\ TrackOf(last.prev[i].track_id).time_since_update
                       = last.prev[i].time_since_update + 1
                /\ TrackOf(last.prev[i].track_id).hit_streak = 0

\* C2: the association of a frame is one-to-one: every retained detection
\* updates exactly one previously live track or creates exactly one new
\* track, never both and never neither; a previously live track is updated by
\* at most one detection; only an unmatched detection creates a track.
C2_OneToOne ==
    IsFrameCall =>
        LET m == Len(last.detections)
            n == Len(last.prev)
            UpdatedBy(j) == {i \in 1..n : <<i, j>> \in last.matched}
            CreatedFor(j) == {k \in 1..Len(last.spawned) : last.spawned[k] = j}
            Grown == {i \in 1..n :
                        /\ last.prev[i].track_id \in LiveIds
                        /\ TrackOf(last.prev[i].track_id).hits
                               = last.prev[i].hits + 1}
            Fresh == {id \in LiveIds : id >= last.first_id}
        IN  /\ \A j \in 1..m :
                  Cardinality(UpdatedBy(j)) + Cardinality(CreatedFor(j)) = 1
            /\ \A i \in 1..n :
                  Cardinality({j \in 1..m : <<i, j>> \in last.matched}) <= 1
            /\ Cardinality(Grown) + Cardinality(Fresh) = m
            /\ \A p \in last.matched :
                  /\ p[1] \in Grown
                  /\ SeqLast(TrackOf(last.prev[p[1]].track_id).positions)
                         = Center(last.detections[p[2]])
            /\ \A k \in 1..Len(last.spawned) :
                  /\ last.first_id + k - 1 \in Fresh
                  /\ TrackOf(last.first_id + k - 1).positions
                         = <<Center(last.detections[last.spawned[k]])>>
                  /\ TrackOf(last.first_id + k - 1).hits = 1

C2_Witness ==
    /\ IsFrameCall
    /\ Len(last.prev) >= 2
    /\ Len(last.detections) >= 2
    /\ last.matched # {}
    /\ last.spawned # <<>>

\* C3: a track is updated with a detection only if the pair's cost is
\* strictly below 0.6; a solver-assigned pair whose cost is 0.6 or more leaves
\* the track marked missed and its detection spawns a new track.
C3_Gate ==
    IsFrameCall =>
        /\ \A i \in 1..Len(last.prev) :
              (/\ last.prev[i].track_id \in LiveIds
               /\ TrackOf(last.prev[i].track_id).hits > last.prev[i].hits)
              => \E j \in 1..Len(last.detections) :
                    /\ <<i, j>> \in last.assigned
                    /\ last.cost_matrix[i][j] < 60000
                    /\ SeqLast(TrackOf(last.prev[i].track_id).positions)
                           = Center(last.detections[j])
        /\ \A p \in last.assigned :
              last.cost_matrix[p[1]][p[2]] >= 60000 =>
                 /\ last.prev[p[1]].track_id \in LiveIds =>
                       LET t == TrackOf(last.prev[p[1]].track_id)
                       IN  /\ t.time_since_update
                                  = last.prev[p[1]].time_since_update + 1
                           /\ t.hit_streak = 0
                           /\ t.hits = last.prev[p[1]].hits
                           /\ t.positions = last.prev[p[1]].positions
                 /\ \E id \in LiveIds :
                       /\ id >= last.first_id
                       /\ TrackOf(id).positions
                              = <<Center(last.detections[p[2]])>>
                       /\ TrackOf(id).confidences
                              = <<last.detections[p[2]].confidence>>

C3_Witness ==
    /\ IsFrameCall
    /\ \E p \in last.assigned : last.cost_matrix[p[1]][p[2]] >= 60000
    /\ \E p \in last.assigned : last.cost_matrix[p[1]][p[2]] < 60000

IsRemovable(t) == t.time_since_update >= max_age /\ t.hits < min_hits

\* C4: at the end of a process_frame call a track is removed iff
\* time_since_update >= max_age and hits < min_hits; so every live track has
\* time_since_update < max_age or hits >= min_hits.
C4_PruneRule ==
    /\ \A k \in 1..Len(tracks) :
          tracks[k].time_since_update < max_age \/ tracks[k].hits >= min_hits
    /\ IsFrameCall =>
          /\ \A i \in 1..Len(last.all) :
                (last.all[i].track_id \notin LiveIds) <=> IsRemovable(last.all[i])
          /\ \A k \in 1..Len(tracks) :
                \E i \in 1..Len(last.all) : last.all[i] = tracks[k]

C4_Witness ==
    /\ IsFrameCall
    /\ \E i \in 1..Len(last.all) :
          IsRemovable(last.all[i]) /\ last.all[i].track_id \notin LiveIds
    /\ \E i \in 1..Len(last.all) :
          last.all[i].time_since_update > 0 /\ last.all[i].track_id \in LiveIds

\* C5: with min_hits > 1, a track never matched after its creation is live
\* after each of the next max_age - 1 process_frame calls and is removed at
\* the end of the max_age-th, whatever those frames contain.
C5_UnmatchedLifetime ==
    \A id \in DOMAIN born :
        /\ (id \in LiveIds /\ TrackOf(id).hits = 1) => calls - born[id] < max_age
        /\ id \notin LiveIds => calls - born[id] >= max_age

\* C6: the age of every live track is the number of process_frame calls made
\* after the call that created it.
C6_AgeCountsCalls ==
    \A k \in 1..Len(tracks) :
        tracks[k].age = calls - born[tracks[k].track_id]

\* C7: once a track has hits >= min_hits no process_frame call removes it,
\* however stale it is, and detect_accidents counts it in confirmed_tracks.
C7_ConfirmedStays ==
    [][ /\ \A i \in 1..Len(tracks) :
              tracks[i].hits >= min_hits =>
                  \E k \in 1..Len(tracks') :
                      /\ tracks'[k].track_id = tracks[i].track_id
                      /\ tracks'[k].hits >= tracks[i].hits
        /\ report'.called =>
              report'.confirmed_tracks =
                  Cardinality({k \in 1..Len(tracks') : tracks'[k].hits >= min_hits})
      ]_vars

C7_Witness ==
    /\ report.called
    /\ report.confirmed_tracks >= 1
    /\ \E k \in 1..Len(tracks) :
          /\ tracks[k].hits >= min_hits
          /\ tracks[k].time_since_update >= max_age

ReportedOfType(type) ==
    SelectSeq(report.accident_indicators, LAMBDA ind : ind.type = type)

\* the box a track recorded at frame f
BoxAt(t, f) == t.bboxes[CHOOSE k \in 1..Len(t.frames) : t.frames[k] = f]

FramesOf(t) == {t.frames[k] : k \in 1..Len(t.frames)}

Overlap(t1, t2, f) ==
    /\ f \in FramesOf(t1) \cap FramesOf(t2)
    /\ calculate_iou(BoxAt(t1, f), BoxAt(t2, f)) > collision_iou_threshold

\* C8: two tracks both updated at frame f whose boxes overlap above the
\* collision threshold at f and at no other frame give exactly one Collision
\* indicator in the report, at frame f with confidence
\* min(0.95, 0.6 + 0.7 IoU), and a true verdict.
C8_OneCollision ==
    (report.called /\ Len(tracks) = 2) =>
        \A f \in DOMAIN frame_detections :
            (/\ Overlap(tracks[1], tracks[2], f)
             /\ \A g \in DOMAIN frame_detections :
                   g # f => ~Overlap(tracks[1], tracks[2], g))
            => /\ Len(ReportedOfType("collision")) = 1
               /\ ReportedOfType("collision")[1].frame = f
               /\ ReportedOfType("collision")[1].confidence =
                      Min(9500, 6000 + (7 * calculate_iou(BoxAt(tracks[1], f),
                                                          BoxAt(tracks[2], f))) \div 10)
               /\ report.has_accident

OneTrackOnly == next_track_id = 1 /\ Len(tracks) = 1

\* C9: a sequence holding a single track with recorded velocities
\* [20, 18, 4] gives exactly one SuddenStop indicator, of confidence 0.90.
C9_OneSuddenStop ==
    (report.called /\ OneTrackOnly /\ tracks[1].velocities = <<200, 180, 40>>) =>
        /\ Len(ReportedOfType("sudden_stop")) = 1
        /\ ReportedOfType("sudden_stop")[1].confidence = 9000

\* every frame logged one detection and all of them went to the single track
OnePerFrame ==
    /\ \A f \in DOMAIN frame_detections : Len(frame_detections[f]) = 1
    /\ OneTrackOnly
    /\ Len(tracks[1].positions) = Cardinality(DOMAIN frame_detections)

ConstantDisplacement(t) ==
    \A k \in 2..(Len(t.positions) - 1) :
        /\ t.positions[k + 1][1] - t.positions[k][1]
               = t.positions[k][1] - t.positions[k - 1][1]
        /\ t.positions[k + 1][2] - t.positions[k][2]
               = t.positions[k][2] - t.positions[k - 1][2]

\* C10: one object per frame moving by the same displacement every frame
\* (zero included), associated into a single track, gives no indicator, a
\* false verdict and fused confidence 0.
C10_ConstantVelocityQuiet ==
    (report.called /\ OnePerFrame /\ ConstantDisplacement(tracks[1])) =>
        /\ report.accident_indicators = <<>>
        /\ ~report.has_accident
        /\ report.confidence = 0

\* C12: a report without indicators has a false verdict and fused
\* confidence 0; with no logged frame the frame ratio is 0 and the report is
\* still produced.
C12_EmptyReport ==
    (report.called /\ report.accident_indicators = <<>>) =>
        /\ ~report.has_accident
        /\ report.confidence = 0
        /\ report.suspicious_frames = {}
        /\ report.accident_frame_ratio = 0
        /\ report.total_frames = Cardinality(DOMAIN frame_detections)

C12_Witness ==
    /\ report.called
    /\ report.accident_indicators = <<>>
    /\ report.total_frames = 0
    /\ tracks = <<>>

\* confidence x type weight of every reported indicator, in 1/10^6
ReportedWeighted ==
    [k \in 1..Len(report.accident_indicators) |->
        LET ind == report.accident_indicators[k]
        IN  ind.confidence *
                (CASE ind.type = "collision"          -> 100
                   [] ind.type = "sudden_stop"        -> 80
                   [] ind.type = "erratic_trajectory" -> 75
                   [] ind.type = "vehicle_clustering" -> 60)]

\* C11: the verdict is true iff final > 0.50, or ratio > 0.20 and
\* final > 0.40, or a collision was reported, or more than 10 erratic
\* indicators and final > 0.35, or ratio > 0.70 and final > 0.30, where
\* final = 0.6 max + 0.4 mean of the weighted confidences of all indicators
\* and ratio = suspicious frames / logged frames.
C11_VerdictRule ==
    report.called =>
        LET n == Len(report.accident_indicators)
            final == IF n = 0 THEN 0
                     ELSE 6 * SeqMax(ReportedWeighted)
                              + (4 * SeqSum(ReportedWeighted)) \div n
            suspicious == Cardinality({report.accident_indicators[k].frame : k \in 1..n})
            total == Cardinality(DOMAIN frame_detections)
            RatioAbove(num, den) == total > 0 /\ den * suspicious > num * total
        IN  /\ report.confidence = final
            /\ report.has_accident <=>
                  \/ final > 5000000
                  \/ RatioAbove(1, 5) /\ final > 4000000
                  \/ Len(ReportedOfType("collision")) > 0
                  \/ Len(ReportedOfType("erratic_trajectory")) > 10 /\ final > 3500000
                  \/ RatioAbove(7, 10) /\ final > 3000000

\* a true verdict that only the ratio rule gives
C11_Witness ==
    /\ report.called
    /\ report.has_accident
    /\ report.accident_indicators # <<>>
    /\ report.confidence <= 5000000
    /\ Len(ReportedOfType("collision")) = 0
    /\ 10 * Cardinality(report.suspicious_frames) <= 7 * report.total_frames

\* the detections logged for frame f are four, pairwise closer than the
\* clustering distance
FourClose(f) ==
    LET detections == frame_detections[f]
    IN  /\ Len(detections) = 4
        /\ \A i, j \in 1..4 :
              i < j => euclidean(Center(detections[i]), Center(detections[j]))
                           < clustering_distance

OnlyType(type) ==
    \A k \in 1..Len(report.accident_indicators) :
        report.accident_indicators[k].type = type

\* C13: after 5 frames that each hold four detections pairwise closer than
\* the clustering distance, the report holds exactly one Clustering indicator
\* per frame, 5 in all; when it holds no other type, final is below 0.50 and
\* the verdict is true exactly when the frame ratio is above 0.20 and final
\* above 0.40.
C13_ClusterPerFrame ==
    (/\ report.called
     /\ Cardinality(DOMAIN frame_detections) = 5
     /\ \A f \in DOMAIN frame_detections : FourClose(f))
    => /\ Len(ReportedOfType("vehicle_clustering")) = 5
       /\ \A f \in DOMAIN frame_detections :
             Cardinality({k \in 1..Len(report.accident_indicators) :
                 /\ report.accident_indicators[k].type = "vehicle_clustering"
                 /\ report.accident_indicators[k].frame = f}) = 1
       /\ OnlyType("vehicle_clustering") =>
             /\ report.confidence < 5000000
             /\ report.has_accident <=>
                    (/\ report.accident_frame_ratio > 2000
                     /\ report.confidence > 4000000)

C13_Witness ==
    /\ report.called
    /\ Cardinality(DOMAIN frame_detections) = 5
    /\ \A f \in DOMAIN frame_detections : FourClose(f)
    /\ OnlyType("vehicle_clustering")
    /\ Len(report.accident_indicators) = 5
    /\ report.has_accident

\* C14: the positions, frames, confidences and boxes histories of a track
\* have the same length, at most 30, after any update and mark_missed calls.
C14_HistoryLengths ==
    \A k \in 1..Len(tracks) :
        /\ Len(tracks[k].positions) = Len(tracks[k].frames)
        /\ Len(tracks[k].positions) = Len(tracks[k].confidences)
        /\ Len(tracks[k].positions) = Len(tracks[k].bboxes)
        /\ Len(tracks[k].positions) <= 30

\* the oldest entries have been evicted
C14_Witness ==
    /\ Len(tracks[1].positions) = 30
    /\ tracks[1].frames[1] > 0
    /\ tracks[1].positions[1] # <<10, -10>>
    /\ tracks[1].age > 0

StrictlyIncreasing(s) == \A i \in 1..(Len(s) - 1) : s[i] < s[i + 1]

\* C15: while the recorded frame indices increase strictly, a track holds
\* one velocity fewer than positions and max(0, positions - 2)
\* accelerations, hence at most 29 and 28.
C15_DerivedLengths ==
    \A k \in 1..Len(tracks) :
        StrictlyIncreasing(tracks[k].frames) =>
            /\ Len(tracks[k].velocities) = Len(tracks[k].positions) - 1
            /\ Len(tracks[k].accelerations) = Max(0, Len(tracks[k].positions) - 2)
            /\ Len(tracks[k].velocities) <= 29
            /\ Len(tracks[k].accelerations) <= 28

C15_Witness ==
    /\ StrictlyIncreasing(tracks[1].frames)
    /\ tracks[1].frames[1] > 0
    /\ Len(tracks[1].velocities) = 29
    /\ Len(tracks[1].accelerations) = 28

\* C16: mark_missed adds 1 to time_since_update and to age, sets hit_streak
\* to 0 and leaves the histories, hits, the id and the class unchanged.
C16_MarkMissedFrame ==
    [][ last'.op = "mark_missed" =>
            /\ Len(tracks') = Len(tracks)
            /\ \A k \in 1..Len(tracks) :
                  tracks'[k] =
                      [ tracks[k] EXCEPT
                          !.time_since_update = tracks[k].time_since_update + 1,
                          !.age = tracks[k].age + 1,
                          !.hit_streak = 0 ]
      ]_vars

C16_Witness ==
    /\ last.op = "mark_missed"
    /\ Len(last.prev[1].positions) >= 3
    /\ last.prev[1].hit_streak >= 3
    /\ tracks[1].hit_streak = 0
    /\ tracks[1].positions = last.prev[1].positions

\* every recorded observation lies on the line x = 10 + 2 f, y = -10
OnLine(t) ==
    \A k \in 1..Len(t.positions) : t.positions[k] = <<10 + 2 * t.frames[k], -10>>

\* C17: for a track whose observations lie on a line p(f) = p0 + v f, predict(g)
\* is p0 + v g for every g from the last recorded frame on, also when the
\* last two observations are more than one frame apart; with fewer than two
\* positions it is the last position.
C17_PredictLinear ==
    \A k \in 1..Len(tracks) :
        LET t == tracks[k]
            n == Len(t.positions)
        IN  /\ n < 2 => \A g \in t.frames[n]..(t.frames[n] + 2) :
                            predict(t, g) = t.positions[n]
            /\ (n >= 2 /\ StrictlyIncreasing(t.frames) /\ OnLine(t)) =>
                  \A g \in t.frames[n]..(t.frames[n] + 2) :
                      predict(t, g) = <<10 + 2 * g, -10>>

PassesFilter(class_name, conf) ==
    class_name \in {"car", "truck", "bus", "motorcycle", "bicycle"} /\ conf >= 3500

\* C18: every detection in the frame log, and every detection that created
\* or updated a track, has a vehicle class and a confidence of at least
\* confidence_threshold; the filtered entries of the input reach neither.
C18_FilterInvariant ==
    /\ \A f \in DOMAIN frame_detections :
          \A i \in 1..Len(frame_detections[f]) :
              /\ PassesFilter(frame_detections[f][i].class,
                              frame_detections[f][i].confidence)
              /\ Center(frame_detections[f][i]) # <<10, -50>>
    /\ \A k \in 1..Len(tracks) :
          \A i \in 1..Len(tracks[k].positions) :
              /\ PassesFilter(tracks[k].class_name, tracks[k].confidences[i])
              /\ tracks[k].positions[i] # <<10, -50>>
    /\ IsFrameCall =>
          \A k \in 1..Len(last.all) :
              \A i \in 1..Len(last.all[k].positions) :
                  PassesFilter(last.all[k].class_name, last.all[k].confidences[i])

\* one logged frame lost every entry to the filter, another kept some
C18_Witness ==
    /\ IsFrameCall
    /\ \E f \in DOMAIN frame_detections : frame_detections[f] = <<>>
    /\ \E f \in DOMAIN frame_detections : Len(frame_detections[f]) = 2
    /\ Len(tracks) >= 2

\* the centre is the midpoint of the stored (x, y, w, h) box
IsMidpoint(centre, bbox) ==
    /\ 2 * centre[1] = 2 * bbox[1] + bbox[3]
    /\ 2 * centre[2] = 2 * bbox[2] + bbox[4]

\* C19: the vertical axis is inverted once, at ingestion: a retained
\* detection's stored centre is the midpoint of its stored box, both in the
\* inverted frame of the raw box, and the positions and boxes the tracks
\* hold and the predictions made from them are still in that frame.
C19_InvertedOnce ==
    /\ IsFrameCall =>
          \A i \in 1..Len(last.detections) :
              LET d == last.detections[i]
                  raw == scene[i]
              IN  /\ 2 * d.x = raw[1] + raw[3]
                  /\ 2 * d.y = -(raw[2] + raw[4])
                  /\ d.bbox = <<raw[1], -raw[4], raw[3] - raw[1], raw[4] - raw[2]>>
                  /\ IsMidpoint(Center(d), d.bbox)
                  /\ \E k \in 1..Len(tracks) :
                        /\ SeqLast(tracks[k].positions) = Center(d)
                        /\ SeqLast(tracks[k].bboxes) = d.bbox
                        /\ SeqLast(tracks[k].frames) = last.frame_idx
    /\ \A f \in DOMAIN frame_detections :
          \A i \in 1..Len(frame_detections[f]) :
              /\ IsMidpoint(Center(frame_detections[f][i]), frame_detections[f][i].bbox)
              /\ frame_detections[f][i].y = -20
    /\ \A k \in 1..Len(tracks) :
          /\ \A i \in 1..Len(tracks[k].positions) :
                /\ IsMidpoint(tracks[k].positions[i], tracks[k].bboxes[i])
                /\ tracks[k].positions[i][2] = -20
          /\ predict(tracks[k], frame_pos)[2] = -20

C19_Witness ==
    /\ IsFrameCall
    /\ last.matched # {}
    /\ \E k \in 1..Len(tracks) :
          /\ Len(tracks[k].positions) >= 3
          /\ predict(tracks[k], frame_pos)[1] # SeqLast(tracks[k].positions)[1]

Area(bbox) == bbox[3] * bbox[4]

\* the two (x, y, w, h) boxes share no point
Disjoint(a, b) ==
    \/ a[1] + a[3] < b[1]
    \/ b[1] + b[3] < a[1]
    \/ a[2] + a[4] < b[2]
    \/ b[2] + b[4] < a[2]

\* C24: calculate_iou is symmetric, gives 1 for two identical boxes of
\* positive width and height, and gives 0, without a division fault, for
\* disjoint boxes and for boxes of zero area.
C24_IouSymmetric ==
    last.op = "calculate_iou" =>
        LET a == scene[1]
            b == scene[2]
        IN  /\ last.result[1] = last.result[2]
            /\ (a = b /\ Area(a) > 0) => last.result[1] = 10000
            /\ Disjoint(a, b) => last.result[1] = 0
            /\ (Area(a) = 0 \/ Area(b) = 0) => last.result[1] = 0
            /\ last.result[1] >= 0 /\ last.result[1] <= 10000

\* two different boxes that overlap in part
C24_Witness ==
    /\ last.op = "calculate_iou"
    /\ Area(scene[1]) > Area(scene[2])
    /\ last.result[1] > 0
    /\ last.result[1] < 10000

IsReadCall ==
    last.op \in DetectorNames \cup {"detect_accidents"}

\* C22: detect_accidents and the four detectors only read: the tracks,
\* next_track_id and the frame log are unchanged by the call, no frame index
\* gains an entry, and a second detect_accidents returns an equal report.
C22_DetectorsReadOnly ==
    [][ IsReadCall' =>
            /\ tracks' = tracks
            /\ next_track_id' = next_track_id
            /\ frame_detections' = frame_detections
            /\ DOMAIN frame_detections' = DOMAIN frame_detections
            /\ (last'.op = "detect_accidents" /\ report.called) => report' = report
      ]_vars

\* a second detect_accidents in a row, on a sequence that reports something
C22_Witness ==
    /\ last.op = "detect_accidents"
    /\ last.result = <<report>>
    /\ report.accident_indicators # <<>>
    /\ Len(tracks) >= 2

\* C23: once a frame index is logged, no later process_frame or
\* detect_accidents call changes the detections logged for it, whatever
\* frame indices the caller supplies.
C23_LogImmutable ==
    [][ \A f \in DOMAIN frame_detections :
            /\ f \in DOMAIN frame_detections'
            /\ frame_detections'[f] = frame_detections[f]
      ]_vars

\* the entries of the call that are well-formed: inside all three lists, of
\* a vehicle class and of sufficient confidence
WellFormed(boxes, confidences, class_names) ==
    {i \in 1..Len(boxes) :
        /\ i <= Len(confidences)
        /\ i <= Len(class_names)
        /\ PassesFilter(class_names[i], confidences[i])}

\* C25: when the lists of a process_frame call differ in length or hold a
\* non-vehicle entry, the call still logs the frame, drops those entries and
\* associates every remaining entry with a track.
C25_MalformedDropped ==
    IsFrameCall =>
        LET boxes == scene[1]
            kept  == WellFormed(scene[1], scene[2], scene[3])
        IN  /\ last.frame_idx \in DOMAIN frame_detections
            /\ frame_detections[last.frame_idx] = last.detections
            /\ Len(last.detections) = Cardinality(kept)
            /\ \A i \in kept :
                  \E j \in 1..Len(last.detections) :
                      /\ last.detections[j].bbox =
                             <<boxes[i][1], -boxes[i][4],
                               boxes[i][3] - boxes[i][1], boxes[i][4] - boxes[i][2]>>
                      /\ last.detections[j].confidence = scene[2][i]
                      /\ \E k \in 1..Len(tracks) :
                            /\ SeqLast(tracks[k].bboxes) = last.detections[j].bbox
                            /\ SeqLast(tracks[k].frames) = last.frame_idx
                            /\ tracks[k].time_since_update = 0

\* a call with lists of different lengths whose one remaining entry updated
\* a track
C25_Witness ==
    /\ IsFrameCall
    /\ Len(scene[1]) # Len(scene[2]) \/ Len(scene[1]) # Len(scene[3])
    /\ Len(last.detections) = 1
    /\ last.matched # {}
    /\ \E k \in 1..Len(tracks) : tracks[k].time_since_update > 0

TrackStateTypes == {"collision", "sudden_stop", "erratic_trajectory"}

\* the indicators of the track-state types reported for frame f, without
\* their frame index
TrackStateIndicators(f) ==
    LET mine == SelectSeq(report.accident_indicators,
                          LAMBDA ind : ind.frame = f /\ ind.type \in TrackStateTypes)
    IN  [k \in 1..Len(mine) |-> [mine[k] EXCEPT !.frame = 0]]

\* C26: Collision, SuddenStop and ErraticTrajectory indicators are those of
\* the track state at the call, the same for every logged frame: when one is
\* reported the frame ratio is 1 and the count of each of the three types is
\* a multiple of the number of logged frames.
C26_RepeatedPerFrame ==
    (report.called /\ report.total_frames > 0) =>
        /\ \A f, g \in DOMAIN frame_detections :
              TrackStateIndicators(f) = TrackStateIndicators(g)
        /\ (\E k \in 1..Len(report.accident_indicators) :
                report.accident_indicators[k].type \in TrackStateTypes) =>
              /\ report.accident_frame_ratio = 10000
              /\ report.suspicious_frames = DOMAIN frame_detections
              /\ \A type \in TrackStateTypes :
                    Len(ReportedOfType(type)) % report.total_frames = 0

\* a sudden stop reported once for each of at least three logged frames
C26_Witness ==
    /\ report.called
    /\ report.total_frames >= 3
    /\ Len(ReportedOfType("sudden_stop")) = report.total_frames
    /\ Len(ReportedOfType("vehicle_clustering")) = 1

\* the verdict part of C30: a false verdict needs an empty report or a
\* report of clustering alone with a frame ratio of at most 0.20
FalseVerdictOnlyWhenWeak ==
    ~report.has_accident =>
        \/ report.accident_indicators = <<>>
        \/ /\ OnlyType("vehicle_clustering")
           /\ 5 * Cardinality(report.suspicious_frames) <= report.total_frames

\* C30: with the default configuration every reported indicator has a
\* weighted confidence of at least 0.45, so the verdict is false only
\* without indicators or with clustering alone and a frame ratio of at most
\* 0.20; one Collision, SuddenStop or ErraticTrajectory makes it true.
C30_WeightedAtLeast045 ==
    report.called =>
        /\ \A k \in 1..Len(report.accident_indicators) :
              \/ ReportedWeighted[k] > 450000
              \/ /\ ReportedWeighted[k] = 450000
                 /\ ~WeightedBelowDecimal(report.accident_indicators[k])
        /\ FalseVerdictOnlyWhenWeak

\* C30 amended: every reported indicator has a weighted confidence of at
\* least 0.45 less one rounding step of double precision, hence above 0.40,
\* and the verdict part stands as stated.
C30_WeightedAbove040 ==
    report.called =>
        /\ \A k \in 1..Len(report.accident_indicators) :
              /\ ReportedWeighted[k] >= 450000
              /\ ReportedWeighted[k] > 400000
        /\ FalseVerdictOnlyWhenWeak

\* a report of clustering alone, from exactly two close pairs
C30_Witness ==
    /\ report.called
    /\ report.accident_indicators # <<>>
    /\ OnlyType("vehicle_clustering")
    /\ \E k \in 1..Len(report.accident_indicators) : ReportedWeighted[k] = 450000
    /\ report.has_accident

\* C27: track ids are unique over the sequence: new tracks take the ids
\* next_track_id, next_track_id + 1, ... in creation order, next_track_id only
\* grows, and the id of a pruned track is not used again.
C27_UniqueIds ==
    [][ /\ next_track_id' >= next_track_id
        /\ \A k \in 1..Len(tracks') :
              /\ tracks'[k].track_id < next_track_id'
              /\ tracks'[k].track_id \notin LiveIds =>
                     tracks'[k].track_id >= next_track_id
              /\ \A l \in 1..Len(tracks') :
                     k # l => tracks'[k].track_id # tracks'[l].track_id
        /\ IsFrameCall' =>
              /\ next_track_id' = next_track_id + Len(last'.spawned)
              /\ Len(last'.all) = Len(tracks) + Len(last'.spawned)
              /\ \A k \in 1..Len(last'.spawned) :
                     last'.all[Len(tracks) + k].track_id = next_track_id + k - 1
      ]_vars

\* a track is created after an earlier one was pruned
C27_Witness ==
    /\ IsFrameCall
    /\ last.spawned # <<>>
    /\ \E id \in 0..(last.first_id - 1) :
          \A k \in 1..Len(last.prev) : last.prev[k].track_id # id

\* C28: for every track, hit_streak = 0 iff time_since_update > 0 (the streak
\* is positive exactly after a creation or an update), and hit_streak <= hits.
C28_StreakInvariant ==
    /\ \A k \in 1..Len(tracks) :
          /\ tracks[k].hit_streak = 0 <=> tracks[k].time_since_update > 0
          /\ tracks[k].hit_streak <= tracks[k].hits
          /\ tracks[k].hit_streak >= 0
    /\ last.op \in {"none", "update"} => tracks[1].hit_streak > 0
    /\ last.op = "mark_missed" => tracks[1].hit_streak = 0

\* a track updated again after a miss
C28_Witness ==
    /\ last.op = "update"
    /\ tracks[1].age > 0
    /\ tracks[1].hit_streak = 1
    /\ tracks[1].hits >= 3
    /\ last.prev[1].time_since_update = 2

\* the update calls a track of this specification has received
UpdatesReceived == calls - tracks[1].age

\* C29: for every track, hits = 1 + the number of update calls it received
\* and len(positions) = min(30, hits); mark_missed does not lower hits.
C29_HitsCountUpdates ==
    /\ tracks[1].hits = 1 + UpdatesReceived
    /\ Len(tracks[1].positions) = Min(30, tracks[1].hits)
    /\ last.op = "mark_missed" => tracks[1].hits = last.prev[1].hits
    /\ last.op = "update" => tracks[1].hits = last.prev[1].hits + 1

\* more updates than the history holds, with a miss among the calls
C29_Witness ==
    /\ tracks[1].hits > 30
    /\ Len(tracks[1].positions) = 30
    /\ tracks[1].age > 0
    /\ last.op = "mark_missed"

\* the engine's side of C28 and C29: the same relations on every live track
EngineTrackCounters ==
    \A k \in 1..Len(tracks) :
        /\ tracks[k].hit_streak = 0 <=> tracks[k].time_since_update > 0
        /\ tracks[k].hit_streak <= tracks[k].hits
        /\ Len(tracks[k].positions) = Min(30, tracks[k].hits)

\* tracker state of the instance the running call is on
RunningState ==
    [ tracks           |-> tracks,
      next_track_id    |-> next_track_id,
      frame_detections |-> frame_detections ]

\* tracker state of the waiting instance
WaitingState ==
    [ tracks           |-> Attribute("tracks", other.tracks, tracks),
      next_track_id    |->
          Attribute("next_track_id", other.next_track_id, next_track_id),
      frame_detections |->
          Attribute("frame_detections", other.frame_detections, frame_detections) ]

\* process_frame on a tracker that runs alone: the states it can leave
StepAlone(st, frame, frame_idx) ==
    LET detections == Normalize(Boxes(frame), Confs(frame), Names(frame))
        aged == [i \in 1..Len(st.tracks) |-> [st.tracks[i] EXCEPT !.age = @ + 1]]
        n == Len(aged)
        m == Len(detections)
        cost_matrix == calculate_cost_matrix(aged, detections, frame_idx)
        solutions == IF n > 0 /\ m > 0
                     THEN linear_sum_assignment(cost_matrix, n, m)
                     ELSE {{}}
    IN  { LET matched == {p \in assigned : GateAccepts(cost_matrix[p[1]][p[2]])}
              spawn == IF m > 0
                       THEN UnmatchedDetections(m, {p[2] : p \in matched})
                       ELSE <<>>
              all == Associate(aged, detections, frame_idx, matched, spawn,
                               st.next_track_id)
          IN  [ tracks           |-> SelectSeq(all, KeepTrack),
                next_track_id    |-> st.next_track_id + Len(spawn),
                frame_detections |->
                    LogFrame(st.frame_detections, frame_idx, detections) ]
          : assigned \in solutions }

\* the tracker states after the first k frames of a video processed alone
RECURSIVE RunAlone(_, _)
RunAlone(video, k) ==
    IF k = 0
    THEN {[ tracks |-> <<>>, next_track_id |-> 0,
            frame_detections |-> [f \in {} |-> <<>>] ]}
    ELSE UNION {StepAlone(st, video[k], k - 1) : st \in RunAlone(video, k - 1)}

\* both instances are where a run alone on their own video would be
AsAlone ==
    /\ RunningState \in RunAlone(scene[running], frame_pos)
    /\ WaitingState \in RunAlone(scene[other.id], other.frame_pos)
    /\ report.called => report = detect_accidents_result

\* C21: with the calls of two tracker instances interleaved in any order, no
\* call on one instance changes the other's live tracks, id counter or frame
\* log, and each instance is in the state, and returns the report, of a run
\* alone on its own sequence.
C21_InstancesIsolated ==
    [][ /\ AsAlone
        /\ last'.op # "switch" => WaitingState' = WaitingState ]_vars

\* both jobs are in the middle of their videos, different so far, and the
\* running one has just processed a frame
C21_Witness ==
    /\ last.op = "process_frame"
    /\ frame_pos >= 1
    /\ other.frame_pos >= 1
    /\ ~other.report.called
    /\ other.calls >= 1
    /\ other.frame_detections # frame_detections
    /\ other.tracks # <<>>

====
